---- MODULE Spec2Model ----
(***************************************************************************)
(* Model of imageproc's test utilities (src/utils.rs):                     *)
(*   - the quickcheck adapter TestBuffer (arbitrary / shrink / copy_sub),   *)
(*   - the pixel comparison engine (pixel_diffs, the diff summaries and the *)
(*     assert_* macros),                                                    *)
(*   - the per-channel tolerance closure of assert_pixels_eq_within!.       *)
(*                                                                         *)
(* An image is a record [w, h, data]: data is the row-major Vec of the      *)
(* ImageBuffer, one pixel per entry; a pixel is the sequence of its         *)
(* channels (Luma = <<v>>, Rgb = <<r, g, b>>).                              *)
(***************************************************************************)
EXTENDS Integers, Sequences, FiniteSets, TLC

VARIABLES
    pc,        \* position of the modelled caller
    orig,      \* the buffer produced by Arbitrary::arbitrary
    image,     \* the buffer shrink is applied to (borrowed, &self.0)
    before,    \* value of image when shrink was entered
    subs,      \* the candidates returned by the last shrink call
    steps,     \* number of shrink steps taken from orig
    actual,    \* first argument of a comparison
    expected,  \* second argument of a comparison
    op,        \* the comparison entry point that was called
    out,       \* what the comparison returned (or the panic it raised)
    p,         \* channels of the left pixel given to the tolerance closure
    q,         \* channels of the right pixel given to the tolerance closure
    tol,       \* $channel_tolerance
    verdict    \* what the tolerance closure returned

vars == << pc, orig, image, before, subs, steps,
           actual, expected, op, out, p, q, tol, verdict >>

shrinkVars == << orig, image, before, subs, steps >>
diffVars   == << actual, expected, op, out >>
tolVars    == << p, q, verdict >>

(***************************************************************************)
(* Bounds of the model.                                                     *)
(***************************************************************************)
MaxSeed == 1       \* random streams tried by arbitrary: seeds 0..MaxSeed
MaxDimSum == 4     \* compared buffers have width + height <= MaxDimSum
MaxTol == 1        \* tolerances tried: 0..MaxTol
MaxChan == 3       \* channel counts tried by the closure: 1..MaxChan

(***************************************************************************)
(* Program constants.                                                       *)
(***************************************************************************)
U8Max == 255          \* dims: (u8, u8) and Luma<u8> subpixels
DimModulus == 10      \* dims.0 % 10, dims.1 % 10
DescribeLimit == 5    \* diffs.take(5)

SubMod == U8Max + 1

(* Pixel put in place of a read that get_pixel refuses (index out of       *)
(* bounds: the call panics).                                                *)
OutOfBounds == << -1 >>

NoImage == [w |-> 0, h |-> 0, data |-> << >>]

NoOp == [name |-> "none", is_diff |-> "none"]

NoResult == [kind |-> "none", msg |-> "", adim |-> << >>, edim |-> << >>,
             diffs |-> << >>, described |-> << >>, calls |-> 0]

NoVerdict == [panic |-> FALSE, large |-> FALSE, overflow |-> FALSE]

Min(a, b) == IF a < b THEN a ELSE b

(***************************************************************************)
(* ImageBuffer                                                              *)
(***************************************************************************)
InBounds(img, x, y) == x >= 0 /\ y >= 0 /\ x < img.w /\ y < img.h

get_pixel(img, x, y) ==
    IF InBounds(img, x, y) THEN img.data[y * img.w + x + 1] ELSE OutOfBounds

dimensions(img) == << img.w, img.h >>

(* Whether building or scanning this buffer hit an out-of-bounds read.      *)
Panicked(img) == \E k \in 1..Len(img.data) : img.data[k] = OutOfBounds

(***************************************************************************)
(* small_image_dimensions and Arbitrary::arbitrary.  The random source is   *)
(* a stream: its k-th subpixel (k from 0) under seed s is (s * k) % 256, so *)
(* seed 0 gives a constant buffer and seed 1 gives pairwise distinct pixels.*)
(***************************************************************************)
small_image_dimensions(b0, b1) == << b0 % DimModulus, b1 % DimModulus >>

ArbitraryPixel(seed, k) == << (seed * k) % SubMod >>

arbitrary(b0, b1, seed) ==
    LET dims == small_image_dimensions(b0, b1)
        width == dims[1]
        height == dims[2]
    IN [w |-> width, h |-> height,
        data |-> [k \in 1..(width * height) |-> ArbitraryPixel(seed, k - 1)]]

(***************************************************************************)
(* copy_sub: out.put_pixel(dx, dy, image.get_pixel(x + dx, y + dy)) for     *)
(* dy in 0..height, dx in 0..width.                                         *)
(***************************************************************************)
(* copy_sub reading one column too far to the right.                       *)
copy_sub_off_by_one(img, x, y, width, height) ==
    [w |-> width, h |-> height,
     data |-> [k \in 1..(width * height) |->
                 LET dx == (k - 1) % width
                     dy == (k - 1) \div width
                 IN get_pixel(img, x + dx + 1, y + dy)]]

copy_sub(img, x, y, width, height) ==
    [w |-> width, h |-> height,
     data |-> [k \in 1..(width * height) |->
                 LET dx == (k - 1) % width
                     dy == (k - 1) \div width
                 IN get_pixel(img, x + dx, y + dy)]]

(***************************************************************************)
(* shrink: the candidates, in the order they are pushed.                    *)
(***************************************************************************)
(* shrink pushing right before left and bottom before top.                 *)
shrink_right_first(img) ==
    LET w == img.w
        h == img.h
        cols == IF w > 0
                THEN << copy_sub(img, 1, 0, w - 1, h), copy_sub(img, 0, 0, w - 1, h) >>
                ELSE << >>
        rows == IF h > 0
                THEN << copy_sub(img, 0, 1, w, h - 1), copy_sub(img, 0, 0, w, h - 1) >>
                ELSE << >>
    IN cols \o rows

(* shrink whose left candidate keeps the full width.                        *)
shrink_keeps_width(img) ==
    LET w == img.w
        h == img.h
        cols == IF w > 0
                THEN << copy_sub(img, 0, 0, w, h), copy_sub(img, 1, 0, w - 1, h) >>
                ELSE << >>
        rows == IF h > 0
                THEN << copy_sub(img, 0, 0, w, h - 1), copy_sub(img, 0, 1, w, h - 1) >>
                ELSE << >>
    IN cols \o rows

(* shrink that trims rows only when there are columns.                      *)
shrink_rows_need_width(img) ==
    LET w == img.w
        h == img.h
        cols == IF w > 0
                THEN << copy_sub(img, 0, 0, w - 1, h), copy_sub(img, 1, 0, w - 1, h) >>
                ELSE << >>
        rows == IF h > 0 /\ w > 0
                THEN << copy_sub(img, 0, 0, w, h - 1), copy_sub(img, 0, 1, w, h - 1) >>
                ELSE << >>
    IN cols \o rows

shrink(img) ==
    LET w == img.w
        h == img.h
        cols == IF w > 0
                THEN << copy_sub(img, 0, 0, w - 1, h), copy_sub(img, 1, 0, w - 1, h) >>
                ELSE << >>
        rows == IF h > 0
                THEN << copy_sub(img, 0, 0, w, h - 1), copy_sub(img, 0, 1, w, h - 1) >>
                ELSE << >>
    IN cols \o rows

(***************************************************************************)
(* The quickcheck adapter as a state machine: arbitrary produces a buffer,  *)
(* TestBuffer::shrink lists its candidates, and the engine goes on with any *)
(* one of them.                                                             *)
(***************************************************************************)
InitShrink ==
    /\ pc = "start"
    /\ orig = NoImage
    /\ image = NoImage
    /\ before = NoImage
    /\ subs = << >>
    /\ steps = 0
    /\ actual = NoImage
    /\ expected = NoImage
    /\ op = NoOp
    /\ out = NoResult
    /\ p = << >>
    /\ q = << >>
    /\ tol = 0
    /\ verdict = NoVerdict

Arbitrary ==
    /\ pc = "start"
    /\ \E b0 \in 0..U8Max, b1 \in 0..U8Max, seed \in 0..MaxSeed :
          /\ orig' = arbitrary(b0, b1, seed)
          /\ image' = orig'
          /\ before' = orig'
    /\ subs' = << >>
    /\ steps' = 0
    /\ pc' = "generated"
    /\ UNCHANGED << diffVars, tolVars, tol >>

Shrink ==
    /\ pc = "generated"
    /\ before' = image
    /\ subs' = shrink(image)
    /\ pc' = "shrunk"
    /\ UNCHANGED << orig, image, steps, diffVars, tolVars, tol >>

Retry ==
    /\ pc = "shrunk"
    /\ \E i \in 1..Len(subs) :
          /\ ~Panicked(subs[i])
          /\ image' = subs[i]
    /\ before' = image'
    /\ subs' = << >>
    /\ steps' = steps + 1
    /\ pc' = "generated"
    /\ UNCHANGED << orig, diffVars, tolVars, tol >>

NextShrink == Arbitrary \/ Shrink \/ Retry

SpecShrink == InitShrink /\ [][NextShrink]_vars

(***************************************************************************)
(* The closure assert_pixels_eq_within! hands to pixel_diffs, on the        *)
(* channel slices cp and cq of the two pixels.  Subpixel subtraction is     *)
(* u8 subtraction: it wraps modulo 256 (a release build) and reports the    *)
(* overflow (on which a debug build panics).                                *)
(***************************************************************************)
SubpixelSub(a, b) == [val |-> (a - b) % SubMod, overflow |-> a < b]

(* The difference taken as sp - sq without ordering the operands.          *)
AbsDiffUnordered(sp, sq) == SubpixelSub(sp, sq)

AbsDiff(sp, sq) == IF sp > sq THEN SubpixelSub(sp, sq) ELSE SubpixelSub(sq, sp)

RECURSIVE ChannelLoop(_, _, _, _)
ChannelLoop(cp, cq, t, i) ==
    IF i > Len(cp)
    THEN [large |-> FALSE, overflow |-> FALSE]
    ELSE LET diff == AbsDiff(cp[i], cq[i])
         IN IF diff.val > t
            THEN [large |-> TRUE, overflow |-> diff.overflow]
            ELSE LET rest == ChannelLoop(cp, cq, t, i + 1)
                 IN [large |-> rest.large,
                     overflow |-> diff.overflow \/ rest.overflow]

channel_tolerance_closure(cp, cq, t) ==
    IF Len(cp) # Len(cq)
    THEN [panic |-> TRUE, large |-> FALSE, overflow |-> FALSE]
    ELSE LET r == ChannelLoop(cp, cq, t, 1)
         IN [panic |-> FALSE, large |-> r.large, overflow |-> r.overflow]

(***************************************************************************)
(* The is_diff predicates the callers pass: "ne" is |p, q| p != q on the    *)
(* (x, y, pixel) triples, "within" is the tolerance closure on the pixels.  *)
(***************************************************************************)
IsDiff(f, t, a, b) ==
    IF f = "ne" THEN a # b ELSE channel_tolerance_closure(a[3], b[3], t).large

(***************************************************************************)
(* GenericImage::pixels: the iterator keeps a cursor (x, y); next() wraps   *)
(* x at the row's end and stops when y reaches the height.                  *)
(***************************************************************************)
IterStart == [x |-> 0, y |-> 0]

(* An iterator that walks down the columns instead of along the rows.      *)
PixelsNextColumnMajor(img, it) ==
    LET y1 == IF it.y >= img.h THEN 0 ELSE it.y
        x1 == IF it.y >= img.h THEN it.x + 1 ELSE it.x
    IN IF x1 >= img.w
       THEN [some |-> FALSE, item |-> << 0, 0, OutOfBounds >>, it |-> [x |-> x1, y |-> y1]]
       ELSE [some |-> TRUE, item |-> << x1, y1, get_pixel(img, x1, y1) >>,
             it |-> [x |-> x1, y |-> y1 + 1]]

PixelsNext(img, it) ==
    LET x1 == IF it.x >= img.w THEN 0 ELSE it.x
        y1 == IF it.x >= img.w THEN it.y + 1 ELSE it.y
    IN IF y1 >= img.h
       THEN [some |-> FALSE, item |-> << 0, 0, OutOfBounds >>, it |-> [x |-> x1, y |-> y1]]
       ELSE [some |-> TRUE, item |-> << x1, y1, get_pixel(img, x1, y1) >>,
             it |-> [x |-> x1 + 1, y |-> y1]]

(* is_empty with && in place of ||.                                         *)
is_empty_both_zero(img) == img.w = 0 /\ img.h = 0

is_empty(img) == img.w = 0 \/ img.h = 0

(***************************************************************************)
(* pixels(left).zip(pixels(right)).filter(is_diff).collect(), with the      *)
(* number of times is_diff was invoked.                                     *)
(***************************************************************************)
RECURSIVE ZipFilter(_, _, _, _, _, _, _)
ZipFilter(left, right, f, t, itl, itr, acc) ==
    LET a == PixelsNext(left, itl)
    IN IF ~a.some THEN acc
       ELSE IF a.item[3] = OutOfBounds THEN [acc EXCEPT !.panicked = TRUE]
       ELSE LET b == PixelsNext(right, itr)
            IN IF ~b.some THEN acc
               ELSE IF b.item[3] = OutOfBounds THEN [acc EXCEPT !.panicked = TRUE]
               ELSE ZipFilter(left, right, f, t, a.it, b.it,
                              [diffs |-> IF IsDiff(f, t, a.item, b.item)
                                         THEN Append(acc.diffs, << a.item, b.item >>)
                                         ELSE acc.diffs,
                               calls |-> acc.calls + 1,
                               panicked |-> FALSE])

NoDiffs == [diffs |-> << >>, calls |-> 0, panicked |-> FALSE]

pixel_diffs(left, right, f, t) ==
    IF is_empty(left) \/ is_empty(right)
    THEN NoDiffs
    ELSE ZipFilter(left, right, f, t, IterStart, IterStart, NoDiffs)

(* describe_pixel_diffs: the first five diffs, one line each.               *)
describe_pixel_diffs(diffs) == SubSeq(diffs, 1, Min(Len(diffs), DescribeLimit))

(***************************************************************************)
(* What a comparison hands back: a Vec of diffs, an Option<String>, a       *)
(* normal return of a macro, or a panic.                                    *)
(***************************************************************************)
DimensionsMessage(kind, a, b) ==
    [kind |-> kind, msg |-> "dimensions do not match",
     adim |-> dimensions(a), edim |-> dimensions(b),
     diffs |-> << >>, described |-> << >>, calls |-> 0]

PixelsMessage(kind, r) ==
    [kind |-> kind, msg |-> "pixels do not match", adim |-> << >>, edim |-> << >>,
     diffs |-> r.diffs, described |-> describe_pixel_diffs(r.diffs), calls |-> r.calls]

Plain(kind, r) ==
    [kind |-> kind, msg |-> "", adim |-> << >>, edim |-> << >>,
     diffs |-> r.diffs, described |-> << >>, calls |-> r.calls]

IndexPanic(r) ==
    [kind |-> "panic", msg |-> "index out of bounds", adim |-> << >>, edim |-> << >>,
     diffs |-> r.diffs, described |-> << >>, calls |-> r.calls]

(* The summary scanning the pixels before it compares the dimensions.      *)
significant_pixel_diff_summary_scan_first(a, b, f, t) ==
    LET r == pixel_diffs(a, b, f, t)
    IN IF r.panicked THEN IndexPanic(r)
       ELSE IF dimensions(a) # dimensions(b)
       THEN [DimensionsMessage("Some", a, b) EXCEPT !.calls = r.calls]
       ELSE IF r.diffs = << >> THEN Plain("None", r)
       ELSE PixelsMessage("Some", r)

(* The summary without its comparison of the dimensions.                   *)
significant_pixel_diff_summary_no_dimensions(a, b, f, t) ==
    LET r == pixel_diffs(a, b, f, t)
    IN IF r.panicked THEN IndexPanic(r)
       ELSE IF r.diffs = << >> THEN Plain("None", r)
       ELSE PixelsMessage("Some", r)

(* The summary treating a buffer without pixels as equal to anything.      *)
significant_pixel_diff_summary_empty_first(a, b, f, t) ==
    IF a.w = 0 \/ a.h = 0 \/ b.w = 0 \/ b.h = 0
    THEN Plain("None", NoDiffs)
    ELSE IF dimensions(a) # dimensions(b)
    THEN DimensionsMessage("Some", a, b)
    ELSE LET r == pixel_diffs(a, b, f, t)
         IN IF r.panicked THEN IndexPanic(r)
            ELSE IF r.diffs = << >> THEN Plain("None", r)
            ELSE PixelsMessage("Some", r)

significant_pixel_diff_summary(a, b, f, t) ==
    IF dimensions(a) # dimensions(b)
    THEN DimensionsMessage("Some", a, b)
    ELSE LET r == pixel_diffs(a, b, f, t)
         IN IF r.panicked THEN IndexPanic(r)
            ELSE IF r.diffs = << >> THEN Plain("None", r)
            ELSE PixelsMessage("Some", r)

pixel_diff_summary(a, b) == significant_pixel_diff_summary(a, b, "ne", 0)

(* assert_dimensions_match!: the panic, or NoResult when it returns.        *)
assert_dimensions_match(a, b) ==
    IF dimensions(a) # dimensions(b)
    THEN DimensionsMessage("panic", a, b)
    ELSE NoResult

assert_pixels_eq(a, b) ==
    LET d == assert_dimensions_match(a, b)
    IN IF d.kind = "panic" THEN d
       ELSE LET s == pixel_diff_summary(a, b)
            IN IF s.kind = "None" THEN [s EXCEPT !.kind = "ok"]
               ELSE [s EXCEPT !.kind = "panic"]

assert_pixels_eq_within(a, b, t) ==
    LET d == assert_dimensions_match(a, b)
    IN IF d.kind = "panic" THEN d
       ELSE LET r == pixel_diffs(a, b, "within", t)
            IN IF r.panicked THEN IndexPanic(r)
               ELSE IF r.diffs # << >> THEN PixelsMessage("panic", r)
               ELSE Plain("ok", r)

(***************************************************************************)
(* The buffers compared: every gray buffer with width + height <=           *)
(* MaxDimSum over two gray levels, and the buffers of the unit tests.       *)
(***************************************************************************)
GrayLevels == {0, 1}

Gray(rows) ==
    [w |-> Len(rows[1]), h |-> Len(rows),
     data |-> [k \in 1..(Len(rows) * Len(rows[1])) |->
                 << rows[((k - 1) \div Len(rows[1])) + 1][((k - 1) % Len(rows[1])) + 1] >>]]

ImagesOfDim(w, h) ==
    {[w |-> w, h |-> h, data |-> d] : d \in [1..(w * h) -> {<< v >> : v \in GrayLevels}]}

SmallDims == {d \in (0..MaxDimSum) \X (0..MaxDimSum) : d[1] + d[2] <= MaxDimSum}

SmallImages == UNION {ImagesOfDim(d[1], d[2]) : d \in SmallDims}

TestImage == Gray(<< << 0, 1, 2 >>, << 10, 11, 12 >> >>)

TestImagePairs ==
    { << TestImage, TestImage >>,
      << Gray(<< << 0, 11, 2 >>, << 10, 11, 12 >> >>), TestImage >>,
      << Gray(<< << 0, 2, 2 >>, << 10, 11, 12 >> >>), TestImage >>,
      << Gray(<< << 0, 3, 2 >>, << 10, 11, 12 >> >>), TestImage >> }

ScenarioLeft == Gray(<< << 0, 1, 2 >>, << 3, 4, 5 >> >>)

ScenarioRight == Gray(<< << 0, 9, 2 >>, << 3, 4, 5 >> >>)

ImagePairs ==
    (SmallImages \X SmallImages) \cup TestImagePairs
        \cup {<< ScenarioLeft, ScenarioRight >>}

InitDiff ==
    /\ pc = "ready"
    /\ \E pair \in ImagePairs :
          /\ actual = pair[1]
          /\ expected = pair[2]
    /\ op = NoOp
    /\ out = NoResult
    /\ tol = 0
    /\ orig = NoImage
    /\ image = NoImage
    /\ before = NoImage
    /\ subs = << >>
    /\ steps = 0
    /\ p = << >>
    /\ q = << >>
    /\ verdict = NoVerdict

Returned(name, f, t, result) ==
    /\ pc = "ready"
    /\ pc' = "returned"
    /\ op' = [name |-> name, is_diff |-> f]
    /\ tol' = t
    /\ out' = result
    /\ UNCHANGED << actual, expected, shrinkVars, tolVars >>

CallPixelDiffsNe ==
    LET r == pixel_diffs(actual, expected, "ne", 0)
    IN Returned("pixel_diffs", "ne", 0, IF r.panicked THEN IndexPanic(r) ELSE Plain("Vec", r))

CallPixelDiffsWithin ==
    \E t \in 0..MaxTol :
        LET r == pixel_diffs(actual, expected, "within", t)
        IN Returned("pixel_diffs", "within", t,
                    IF r.panicked THEN IndexPanic(r) ELSE Plain("Vec", r))

CallSignificantSummary ==
    \E t \in 0..MaxTol :
        Returned("significant_pixel_diff_summary", "within", t,
                 significant_pixel_diff_summary(actual, expected, "within", t))

CallPixelDiffSummary ==
    Returned("pixel_diff_summary", "ne", 0, pixel_diff_summary(actual, expected))

CallAssertDimensionsMatch ==
    LET d == assert_dimensions_match(actual, expected)
    IN Returned("assert_dimensions_match", "none", 0,
                IF d.kind = "panic" THEN d ELSE [d EXCEPT !.kind = "ok"])

CallAssertPixelsEq ==
    Returned("assert_pixels_eq", "ne", 0, assert_pixels_eq(actual, expected))

CallAssertPixelsEqWithin ==
    \E t \in 0..MaxTol :
        Returned("assert_pixels_eq_within", "within", t,
                 assert_pixels_eq_within(actual, expected, t))

NextDiff ==
    \/ CallPixelDiffsNe
    \/ CallPixelDiffsWithin
    \/ CallSignificantSummary
    \/ CallPixelDiffSummary
    \/ CallAssertDimensionsMatch
    \/ CallAssertPixelsEq
    \/ CallAssertPixelsEqWithin

SpecDiff == InitDiff /\ [][NextDiff]_vars

(***************************************************************************)
(* The tolerance closure on its own: any two pixels of one to MaxChan u8    *)
(* channels, any tolerance.                                                 *)
(***************************************************************************)
SubpixelSamples == {0, 2, U8Max}

Tolerances == (0..MaxTol) \cup {2, U8Max - 1, U8Max}

ChannelSlices == UNION {[1..n -> SubpixelSamples] : n \in 1..MaxChan}

InitTol ==
    /\ pc = "ready"
    /\ p \in ChannelSlices
    /\ q \in ChannelSlices
    /\ tol \in Tolerances
    /\ verdict = NoVerdict
    /\ orig = NoImage
    /\ image = NoImage
    /\ before = NoImage
    /\ subs = << >>
    /\ steps = 0
    /\ actual = NoImage
    /\ expected = NoImage
    /\ op = NoOp
    /\ out = NoResult

Judge ==
    /\ pc = "ready"
    /\ pc' = "judged"
    /\ verdict' = channel_tolerance_closure(p, q, tol)
    /\ UNCHANGED << p, q, tol, shrinkVars, diffVars >>

NextTol == Judge

SpecTol == InitTol /\ [][NextTol]_vars

(***************************************************************************)
(* Reference notions the shrink claims are stated with: the pixel at a      *)
(* coordinate, a buffer with one column or one row taken out, and a buffer  *)
(* being a contiguous sub-rectangle of another.                             *)
(***************************************************************************)
IsZeroByZero(img) == img.w = 0 /\ img.h = 0 /\ img.data = << >>

Size(img) == img.w + img.h

PixelAt(img, x, y) == img.data[y * img.w + x + 1]

WithoutColumn(img, c) ==
    [w |-> img.w - 1, h |-> img.h,
     data |-> [k \in 1..((img.w - 1) * img.h) |->
                 LET x == (k - 1) % (img.w - 1)
                     y == (k - 1) \div (img.w - 1)
                 IN PixelAt(img, IF x < c THEN x ELSE x + 1, y)]]

WithoutRow(img, r) ==
    [w |-> img.w, h |-> img.h - 1,
     data |-> [k \in 1..(img.w * (img.h - 1)) |->
                 LET x == (k - 1) % img.w
                     y == (k - 1) \div img.w
                 IN PixelAt(img, x, IF y < r THEN y ELSE y + 1)]]

IsSubRectangleAt(sub, whole, ox, oy) ==
    /\ ox + sub.w <= whole.w
    /\ oy + sub.h <= whole.h
    /\ Len(sub.data) = sub.w * sub.h
    /\ \A i \in 0..(sub.w - 1), j \in 0..(sub.h - 1) :
          PixelAt(sub, i, j) = PixelAt(whole, ox + i, oy + j)

IsSubRectangle(sub, whole) ==
    \E ox \in 0..whole.w, oy \in 0..whole.h : IsSubRectangleAt(sub, whole, ox, oy)

Bracket(b) == IF b THEN 1 ELSE 0

(***************************************************************************)
(* C1: from any generated buffer (0 <= w, h <= 9) every candidate shrink    *)
(* returns is strictly smaller than its parent by width + height, shrink    *)
(* returns no candidate only for the 0x0 buffer, and a chain of k shrink    *)
(* steps has used up k of the original's width + height: every chain is     *)
(* finite and can only end at the 0x0 buffer.                               *)
(***************************************************************************)
ShrinkTerminates ==
    /\ orig.w \in 0..9 /\ orig.h \in 0..9
    /\ pc = "shrunk" =>
          /\ \A i \in 1..Len(subs) : Size(subs[i]) < Size(image)
          /\ (subs = << >>) <=> IsZeroByZero(image)
    /\ steps + Size(image) <= Size(orig)

ShrinkChainEnded ==
    /\ pc = "shrunk"
    /\ subs = << >>
    /\ IsZeroByZero(image)
    /\ orig.w = 9 /\ orig.h = 9
    /\ steps = 18

(***************************************************************************)
(* C2 as claimed: for w > 0 and h > 0 the candidates are, in order, the     *)
(* buffer without column 0, without the last column, without row 0,         *)
(* without the last row.                                                    *)
(***************************************************************************)
RemovedFirstThenLast ==
    (pc = "shrunk" /\ image.w > 0 /\ image.h > 0) =>
        /\ Len(subs) = 4
        /\ subs[1] = WithoutColumn(image, 0)
        /\ subs[2] = WithoutColumn(image, image.w - 1)
        /\ subs[3] = WithoutRow(image, 0)
        /\ subs[4] = WithoutRow(image, image.h - 1)

(***************************************************************************)
(* C2 amended: for w > 0 and h > 0 the candidates are, in order, the        *)
(* buffer without its last column (the left part), without column 0 (the    *)
(* right part), without its last row (the top part), without row 0 (the     *)
(* bottom part).                                                            *)
(***************************************************************************)
KeptLeftRightTopBottom ==
    (pc = "shrunk" /\ image.w > 0 /\ image.h > 0) =>
        /\ Len(subs) = 4
        /\ subs[1] = WithoutColumn(image, image.w - 1)
        /\ subs[2] = WithoutColumn(image, 0)
        /\ subs[3] = WithoutRow(image, image.h - 1)
        /\ subs[4] = WithoutRow(image, 0)

OrderDistinguished ==
    /\ pc = "shrunk"
    /\ image.w >= 2 /\ image.h >= 2
    /\ Len(subs) = 4
    /\ subs[1] # subs[2]
    /\ subs[3] # subs[4]
    /\ PixelAt(subs[1], 0, 0) = PixelAt(image, 0, 0)
    /\ PixelAt(subs[2], 0, 0) = PixelAt(image, 1, 0)
    /\ PixelAt(subs[3], 0, 0) = PixelAt(image, 0, 0)
    /\ PixelAt(subs[4], 0, 0) = PixelAt(image, 0, 1)

(***************************************************************************)
(* C3: shrink returns exactly 2*[w>0] + 2*[h>0] candidates; the column      *)
(* candidates come first and are (w-1) x h, the row candidates are          *)
(* w x (h-1); number and dimensions are a function of (w, h) alone.         *)
(***************************************************************************)
CandidateCountAndDims ==
    pc = "shrunk" =>
        LET w == image.w
            h == image.h
            nc == 2 * Bracket(w > 0)
            nr == 2 * Bracket(h > 0)
        IN /\ Len(subs) = nc + nr
           /\ Len(subs) <= 4
           /\ (Len(subs) = 0) <=> (w = 0 /\ h = 0)
           /\ \A i \in 1..nc : dimensions(subs[i]) = << w - 1, h >>
           /\ \A i \in (nc + 1)..(nc + nr) : dimensions(subs[i]) = << w, h - 1 >>

OnlyRowCandidates ==
    /\ pc = "shrunk"
    /\ image.w = 0 /\ image.h > 1
    /\ Len(subs) = 2
    /\ dimensions(subs[1]) = << 0, image.h - 1 >>

(***************************************************************************)
(* C10: every buffer reached by shrink steps, and every candidate, is a     *)
(* contiguous sub-rectangle of the original buffer with exactly w'*h'       *)
(* pixels; copy_sub never reads outside its source; shrink leaves the       *)
(* buffer it is applied to, and the original, as they were.                 *)
(***************************************************************************)
ShrunkIsSubRectangle ==
    /\ IsSubRectangle(image, orig)
    /\ Len(orig.data) = orig.w * orig.h
    /\ \A i \in 1..Len(subs) :
          /\ ~Panicked(subs[i])
          /\ IsSubRectangle(subs[i], image)
          /\ IsSubRectangle(subs[i], orig)
    /\ pc = "shrunk" => image = before
    /\ steps = 0 => image = orig

InteriorSubRectangle ==
    /\ pc = "shrunk"
    /\ steps >= 4
    /\ image.w >= 2 /\ image.h >= 2
    /\ Len(subs) = 4
    /\ PixelAt(orig, 0, 0) # PixelAt(orig, 1, 1)
    /\ IsSubRectangleAt(image, orig, 2, 1)
    /\ ~IsSubRectangleAt(image, orig, 0, 0)
    /\ image.w + 2 < orig.w

(***************************************************************************)
(* Reference notions the comparison claims are stated with.                 *)
(***************************************************************************)
HasNoPixels(img) == img.w = 0 \/ img.h = 0

PixelCount(img) == img.w * img.h

SameDimensions == actual.w = expected.w /\ actual.h = expected.h

SamePixels ==
    \A x \in 0..(actual.w - 1), y \in 0..(actual.h - 1) :
        PixelAt(actual, x, y) = PixelAt(expected, x, y)

Abs(n) == IF n < 0 THEN -n ELSE n

ExceedsTolerance(cp, cq, t) == \E i \in 1..Len(cp) : Abs(cp[i] - cq[i]) > t

(* The k-th pixel of a buffer in row-major scan order, with its coordinate. *)
Kth(img, k) ==
    << (k - 1) % img.w, (k - 1) \div img.w,
       PixelAt(img, (k - 1) % img.w, (k - 1) \div img.w) >>

Differs(f, t, a, b) ==
    IF f = "ne" THEN (a[1] # b[1] \/ a[2] # b[2] \/ a[3] # b[3])
    ELSE ExceedsTolerance(a[3], b[3], t)

ScanIndex(img, item) == item[2] * img.w + item[1] + 1

Called(name) == pc = "returned" /\ op.name = name

SummaryCalled == Called("pixel_diff_summary") \/ Called("significant_pixel_diff_summary")

MacroCalled ==
    Called("assert_pixels_eq") \/ Called("assert_pixels_eq_within")
        \/ Called("assert_dimensions_match")

IsDimensionFailure(kind) ==
    /\ out.kind = kind
    /\ out.msg = "dimensions do not match"
    /\ out.adim = << actual.w, actual.h >>
    /\ out.edim = << expected.w, expected.h >>

(***************************************************************************)
(* C4: pixel_diff_summary returns None exactly when the two images have     *)
(* the same dimensions and equal pixels at every coordinate, and a          *)
(* description otherwise; so it is None on (a, a), assert_pixels_eq!(a, a)  *)
(* returns, and assert_pixels_eq! panics exactly when the images differ.    *)
(***************************************************************************)
SummaryNoneIffSame ==
    /\ Called("pixel_diff_summary") =>
          /\ out.kind \in {"None", "Some"}
          /\ out.kind = "None" <=> (SameDimensions /\ SamePixels)
          /\ actual = expected => out.kind = "None"
    /\ Called("assert_pixels_eq") =>
          /\ out.kind \in {"ok", "panic"}
          /\ out.kind = "ok" <=> (SameDimensions /\ SamePixels)
          /\ actual = expected => out.kind = "ok"

OnePixelDiffersPanics ==
    /\ Called("assert_pixels_eq")
    /\ actual = Gray(<< << 0, 11, 2 >>, << 10, 11, 12 >> >>)
    /\ expected = TestImage
    /\ out.kind = "panic"
    /\ out.msg = "pixels do not match"
    /\ Len(out.diffs) = 1

(***************************************************************************)
(* C5 as claimed: when either buffer has zero width or zero height the      *)
(* comparison reports no diff and no failure, whatever the other buffer     *)
(* is; a dimension failure is reported only when both buffers have pixels.  *)
(***************************************************************************)
EmptyIsVacuouslyEqual ==
    /\ (pc = "returned" /\ (HasNoPixels(actual) \/ HasNoPixels(expected))) =>
          /\ Called("pixel_diffs") => (out.kind = "Vec" /\ out.diffs = << >>)
          /\ SummaryCalled => out.kind = "None"
          /\ Called("assert_pixels_eq") => out.kind = "ok"
    /\ (pc = "returned" /\ out.msg = "dimensions do not match") =>
          (~HasNoPixels(actual) /\ ~HasNoPixels(expected))

(***************************************************************************)
(* C5 amended: when either buffer has zero width or zero height,            *)
(* pixel_diffs returns no diffs whatever the other buffer is, and           *)
(* significant_pixel_diff_summary / assert_pixels_eq report no failure      *)
(* exactly when the two buffers have the same dimensions; when the          *)
(* dimensions differ they report the dimension mismatch, also when one or   *)
(* both buffers have no pixels.                                             *)
(***************************************************************************)
EmptyEqualOnlyWithSameDimensions ==
    (pc = "returned" /\ (HasNoPixels(actual) \/ HasNoPixels(expected))) =>
        /\ Called("pixel_diffs") => (out.kind = "Vec" /\ out.diffs = << >>)
        /\ SummaryCalled =>
              IF SameDimensions THEN out.kind = "None" ELSE IsDimensionFailure("Some")
        /\ Called("assert_pixels_eq") =>
              IF SameDimensions THEN out.kind = "ok" ELSE IsDimensionFailure("panic")

EmptyAgainstNonEmptyFails ==
    /\ Called("assert_pixels_eq")
    /\ actual.w = 0 /\ actual.h = 0
    /\ expected.w = 1 /\ expected.h = 1
    /\ out.kind = "panic"
    /\ out.msg = "dimensions do not match"

(***************************************************************************)
(* C6: pixel_diffs returns the empty list whenever left or right has width  *)
(* 0 or height 0, whatever the other buffer is, and then never invokes      *)
(* is_diff.                                                                 *)
(***************************************************************************)
EmptyNeverScanned ==
    (Called("pixel_diffs") /\ (HasNoPixels(actual) \/ HasNoPixels(expected))) =>
        /\ out.kind = "Vec"
        /\ out.diffs = << >>
        /\ out.calls = 0

ZeroWidthAgainstPixels ==
    /\ Called("pixel_diffs")
    /\ actual.w = 0 /\ actual.h = 2
    /\ expected.w = 2 /\ expected.h = 2
    /\ out.kind = "Vec"
    /\ out.calls = 0

(***************************************************************************)
(* C7: when the (width, height) of the two buffers differ,                  *)
(* significant_pixel_diff_summary and the assert macros report the          *)
(* dimension mismatch, carrying both dimensions, with is_significant_diff   *)
(* invoked zero times and no pixel description produced.                    *)
(***************************************************************************)
DimensionMismatchBeforeScan ==
    (pc = "returned" /\ ~SameDimensions) =>
        /\ SummaryCalled => IsDimensionFailure("Some")
        /\ MacroCalled => IsDimensionFailure("panic")
        /\ (SummaryCalled \/ MacroCalled) =>
              (out.calls = 0 /\ out.diffs = << >> /\ out.described = << >>)

MismatchWithEqualPixelCounts ==
    /\ Called("significant_pixel_diff_summary")
    /\ actual.w = 1 /\ actual.h = 2
    /\ expected.w = 2 /\ expected.h = 1
    /\ actual.data = expected.data
    /\ out.kind = "Some"
    /\ out.msg = "dimensions do not match"
    /\ out.calls = 0

(***************************************************************************)
(* C9: for two non-empty buffers pixel_diffs pairs the k-th pixel of left   *)
(* with the k-th pixel of right in row-major scan order for every k up to   *)
(* the smaller pixel count, without checking dimensions, and returns        *)
(* exactly the pairs on which is_diff holds, in scan order, each with its   *)
(* coordinate and pixel from both buffers; [[0,1,2],[3,4,5]] against        *)
(* [[0,9,2],[3,4,5]] gives the single diff at (1,0) with values 1 and 9.    *)
(***************************************************************************)
PixelDiffsZipRowMajor ==
    (Called("pixel_diffs") /\ ~HasNoPixels(actual) /\ ~HasNoPixels(expected)) =>
        LET n == Min(PixelCount(actual), PixelCount(expected))
            hits == {k \in 1..n :
                       Differs(op.is_diff, tol, Kth(actual, k), Kth(expected, k))}
        IN /\ out.kind = "Vec"
           /\ out.calls = n
           /\ Len(out.diffs) = Cardinality(hits)
           /\ \A i \in 1..Len(out.diffs) :
                 \E k \in hits : out.diffs[i] = << Kth(actual, k), Kth(expected, k) >>
           /\ \A i \in 1..(Len(out.diffs) - 1) :
                 ScanIndex(actual, out.diffs[i][1]) < ScanIndex(actual, out.diffs[i + 1][1])
           /\ (actual = ScenarioLeft /\ expected = ScenarioRight /\ op.is_diff = "ne") =>
                 out.diffs = << << << 1, 0, << 1 >> >>, << 1, 0, << 9 >> >> >> >>

ScenarioSingleDiff ==
    /\ Called("pixel_diffs")
    /\ op.is_diff = "ne"
    /\ actual = ScenarioLeft
    /\ expected = ScenarioRight
    /\ out.diffs = << << << 1, 0, << 1 >> >>, << 1, 0, << 9 >> >> >> >>

(***************************************************************************)
(* C8: for pixels p and q with the same channel count and u8 subpixels the  *)
(* tolerance closure judges the pair different if and only if some channel  *)
(* has |p[i] - q[i]| > tol; the absolute difference is the larger value     *)
(* minus the smaller, so the subtraction never overflows or wraps.          *)
(***************************************************************************)
ToleranceJudgement ==
    (pc = "judged" /\ Len(p) = Len(q)) =>
        /\ ~verdict.panic
        /\ ~verdict.overflow
        /\ verdict.large <=> ExceedsTolerance(p, q, tol)
        /\ (\A i \in 1..Len(p) : Abs(p[i] - q[i]) <= tol) => ~verdict.large

LaterChannelExceeds ==
    /\ pc = "judged"
    /\ p = << 2, 0, 2 >>
    /\ q = << 2, 2, 0 >>
    /\ tol = 1
    /\ verdict.large
    /\ ~verdict.overflow

====
